---- MODULE Spec2Model ----
(***************************************************************************)
(* Authentication gateway of htmx_fastapi_user_demo: local registration,   *)
(* password login, e-mail verification, Google / Vipps sign-in and the     *)
(* signed tokens that connect them.                                        *)
(*                                                                         *)
(* users is the committed content of the users table (src/models.py); a    *)
(* handler's change to a row counts only where the handler commits it.     *)
(* The persistent store is assumed available: a handler's broad            *)
(* "except Exception" branch is taken only where the handler's own code    *)
(* raises.  The routers of fastapi-users mounted in setup_auth_routes are  *)
(* handed an AsyncSession where they expect a user database                *)
(* (src/users.py:110-118), so they fail before touching a row and are not  *)
(* actions here.                                                           *)
(***************************************************************************)
EXTENDS Naturals, Integers, Sequences, FiniteSets, TLC

VARIABLES users, now, ticks, issued, outbox, jwt_algorithm, inflight, kept,
          req, resp

vars == <<users, now, ticks, issued, outbox, jwt_algorithm, inflight, kept,
          req, resp>>

----------------------------------------------------------------------------
(* Bounds *)

MaxTicks == 1

(* Program constants *)

SessionLifetime == 3600
VerificationLifetimeHours == 24
SecondsPerHour == 3600
MinPasswordLen == 8
CookieMaxAge == 3600

NoneV == "None"
SECRET_KEY == "CHANGE_ME_TO_A_SECURE_SECRET"
ForgedKey == "not-the-secret"
DefaultAlgorithm == "HS256"
Algorithms == {"HS256", "HS512"}
AuthAudience == "fastapi-users:auth"
ResetAudience == "fastapi-users:reset"

(* Inputs *)

Alice == <<"a", "@", "x">>
Bob == <<"b", "@", "x">>
NoAt == <<"a", "x">>
Emails == {Alice, Bob, NoAt}
GoogleRequests ==
    {[fault |-> "none", email |-> Alice], [fault |-> "none", email |-> <<>>],
     [fault |-> "exchange", email |-> <<>>],
     [fault |-> "userinfo", email |-> <<>>]}
VippsRequests ==
    {[fault |-> "none", email |-> Bob], [fault |-> "none", email |-> <<>>],
     [fault |-> "exchange", email |-> <<>>],
     [fault |-> "no_access_token", email |-> <<>>],
     [fault |-> "userinfo", email |-> <<>>]}
Passwords == {"password123", "short"}
LoginPasswords == {"password123", "wrongpass1"}
Names == {NoneV}
Pictures == {NoneV}
GivenNames == {""}
Deltas == {SessionLifetime + 1, VerificationLifetimeHours * SecondsPerHour + 1}

----------------------------------------------------------------------------
(* Conversions between account ids and the subject claim *)

Digits == <<"0", "1", "2", "3", "4", "5", "6", "7", "8", "9">>

RECURSIVE Str(_)
Str(n) ==
    IF n < 10 THEN <<Digits[n + 1]>>
    ELSE Str(n \div 10) \o <<Digits[(n % 10) + 1]>>

DigitValue(c) == (CHOOSE k \in 1..10 : Digits[k] = c) - 1

IsNumeric(s) ==
    /\ Len(s) > 0
    /\ \A k \in 1..Len(s) : \E d \in 1..10 : Digits[d] = s[k]

RECURSIVE int(_)
int(s) ==
    IF Len(s) = 1 THEN DigitValue(s[1])
    ELSE 10 * int(SubSeq(s, 1, Len(s) - 1)) + DigitValue(s[Len(s)])

----------------------------------------------------------------------------
(* Token engine *)

NoToken ==
    [fmt |-> "none", alg |-> NoneV, key |-> NoneV, sub |-> <<>>, exp |-> 0,
     type |-> NoneV, aud |-> NoneV]

Garbage ==
    [fmt |-> "garbage", alg |-> NoneV, key |-> NoneV, sub |-> <<>>, exp |-> 0,
     type |-> NoneV, aud |-> NoneV]

generate_verification_token(user_id) ==
    [fmt |-> "jws", alg |-> jwt_algorithm, key |-> SECRET_KEY,
     sub |-> Str(user_id),
     exp |-> now + VerificationLifetimeHours * SecondsPerHour,
     type |-> "verification", aud |-> NoneV]

generate_jwt(sub, aud, secret, lifetime_seconds) ==
    [fmt |-> "jws", alg |-> DefaultAlgorithm, key |-> secret,
     sub |-> sub, exp |-> now + lifetime_seconds,
     type |-> NoneV, aud |-> aud]

(* a decoder that ignores the aud claim *)
jwt_decode_no_audience(token, key, algorithms, audience) ==
    IF token.fmt # "jws" THEN "DecodeError"
    ELSE IF token.alg \notin algorithms THEN "InvalidAlgorithmError"
    ELSE IF token.key # key THEN "InvalidSignatureError"
    ELSE IF token.exp <= now THEN "ExpiredSignatureError"
    ELSE "ok"

(* a decoder that ignores the exp claim *)
jwt_decode_no_expiry(token, key, algorithms, audience) ==
    IF token.fmt # "jws" THEN "DecodeError"
    ELSE IF token.alg \notin algorithms THEN "InvalidAlgorithmError"
    ELSE IF token.key # key THEN "InvalidSignatureError"
    ELSE IF audience = NoneV /\ token.aud # NoneV THEN "InvalidAudienceError"
    ELSE IF audience # NoneV /\ token.aud = NoneV THEN "MissingRequiredClaimError"
    ELSE IF audience # NoneV /\ token.aud # audience THEN "InvalidAudienceError"
    ELSE "ok"

(* jwt.decode: structure, algorithm, signature, expiry, audience *)
jwt_decode(token, key, algorithms, audience) ==
    IF token.fmt # "jws" THEN "DecodeError"
    ELSE IF token.alg \notin algorithms THEN "InvalidAlgorithmError"
    ELSE IF token.key # key THEN "InvalidSignatureError"
    ELSE IF token.exp <= now THEN "ExpiredSignatureError"
    ELSE IF audience = NoneV /\ token.aud # NoneV THEN "InvalidAudienceError"
    ELSE IF audience # NoneV /\ token.aud = NoneV THEN "MissingRequiredClaimError"
    ELSE IF audience # NoneV /\ token.aud # audience THEN "InvalidAudienceError"
    ELSE "ok"

----------------------------------------------------------------------------
(* Account repository *)

User(email, hashed_password, is_active, is_verified, is_superuser, name, picture, via) ==
    [email |-> email, hashed_password |-> hashed_password,
     is_active |-> is_active, is_verified |-> is_verified,
     is_superuser |-> is_superuser, name |-> name, picture |-> picture,
     via |-> via]

Ids == 1..Len(users)

(* a lookup that finds only the accounts created with a password *)
get_by_email_local_only(email) ==
    IF \E i \in 1..Len(users) :
          users[i].email = email /\ users[i].via = "local"
    THEN CHOOSE i \in 1..Len(users) :
          users[i].email = email /\ users[i].via = "local"
    ELSE 0

(* SQLAlchemyUserDatabase.get_by_email: the row's id, 0 when there is none *)
get_by_email(email) ==
    IF \E i \in Ids : users[i].email = email
    THEN CHOOSE i \in Ids : users[i].email = email
    ELSE 0

(* session.get(User, id) *)
session_get(id) == IF id \in Ids THEN id ELSE 0

(* session.add(new_user); commit; refresh: the row gets the next id *)
session_add(new_user) == Append(users, new_user)

(* password_helper: bcrypt is the only scheme, so no hash is deprecated *)
password_hash(password) == [scheme |-> "bcrypt", pw |-> password]

NoHash == [scheme |-> NoneV, pw |-> NoneV]

(* a helper whose context has a newer scheme: every verified hash is *)
(* returned re-hashed                                                *)
verify_and_update_upgrading(password, hashed_password) ==
    [verified |-> hashed_password = password_hash(password),
     updated_password_hash |->
        IF hashed_password = password_hash(password)
        THEN [scheme |-> "argon2", pw |-> password] ELSE NoHash]

verify_and_update(password, hashed_password) ==
    [verified |-> hashed_password = password_hash(password),
     updated_password_hash |-> NoHash]

----------------------------------------------------------------------------
(* Responses and mail *)

(* the request being answered: the handler and its form or query fields *)
Request(op, email, password, token) ==
    [op |-> op, email |-> email, password |-> password, token |-> token]

(* a provider callback: the email and the profile fields of the *)
(* assertion the provider returned for the code                  *)
CallbackRequest(op, email, assertion) ==
    [op |-> op, email |-> email, password |-> NoneV, token |-> NoToken,
     assertion |-> assertion]

(* what the client gets back: the page or redirect and the auth cookie if *)
(* one is set; changed tells whether the request altered a row            *)
Response(out, cookie, changed) ==
    [out |-> out, cookie |-> cookie, changed |-> changed]

Mail(to, subject, token) == [to |-> to, subject |-> subject, token |-> token]

(* send_verification_email -> send_email: one task on background_tasks *)
send_verification_email(email, token) ==
    <<Mail(email, "Verify Your Email Address", token)>>

(* a hook that mints its token for the id after the account's *)
on_after_register_next_id(user_id, email, request, background_tasks) ==
    IF request /\ background_tasks
    THEN send_verification_email(email,
                                 generate_verification_token(user_id + 1))
    ELSE <<>>

(* UserManager.on_after_register: register_user has set background_tasks *)
on_after_register(user_id, email, request, background_tasks) ==
    IF request /\ background_tasks
    THEN send_verification_email(email, generate_verification_token(user_id))
    ELSE <<>>

(* response.set_cookie: the attributes of the auth cookie *)
auth_cookie_attributes ==
    [key |-> "auth", max_age |-> CookieMaxAge, path |-> "/", secure |-> FALSE,
     httponly |-> TRUE, samesite |-> "lax"]

(* a cookie whose token lives for a day *)
create_auth_cookie_response_day(user_id) ==
    generate_jwt(Str(user_id), AuthAudience, SECRET_KEY,
                 VerificationLifetimeHours * SecondsPerHour)

(* create_auth_cookie_response *)
create_auth_cookie_response(user_id) ==
    generate_jwt(Str(user_id), AuthAudience, SECRET_KEY, SessionLifetime)

----------------------------------------------------------------------------
(* POST /auth/local/register *)

(* a registration that takes a password of any length *)
register_user_outcome_any_length(email, password) ==
    IF ~(\E k \in 1..Len(email) : email[k] = "@") THEN "Invalid email address"
    ELSE IF get_by_email(email) # 0 THEN "Email already registered"
    ELSE "verify.html"

register_user_outcome(email, password) ==
    IF ~(\E k \in 1..Len(email) : email[k] = "@") THEN "Invalid email address"
    ELSE IF Len(password) < MinPasswordLen
        THEN "Password must be at least 8 characters long"
    ELSE IF get_by_email(email) # 0 THEN "Email already registered"
    ELSE "verify.html"

(* a registration that trusts the address at once *)
register_new_user_verified(email, password, name) ==
    User(email, password_hash(password), TRUE, TRUE, FALSE, name, NoneV,
         "local")

register_new_user(email, password, name) ==
    User(email, password_hash(password), TRUE, FALSE, FALSE, name, NoneV,
         "local")

Register(email, password, name) ==
    LET out == register_user_outcome(email, password)
        id == Len(users) + 1
        token == generate_verification_token(id)
    IN  /\ req' = Request("register", email, password, NoToken)
        /\ resp' = Response(out, NoToken, out = "verify.html")
        /\ IF out = "verify.html"
           THEN /\ users' = session_add(register_new_user(email, password, name))
                /\ issued' = issued \cup {token}
                /\ outbox' = Append(outbox,
                                    send_verification_email(email, token)
                                    \o on_after_register(id, email, TRUE, TRUE))
           ELSE UNCHANGED <<users, issued, outbox>>
        /\ UNCHANGED <<now, ticks, jwt_algorithm, inflight, kept>>

----------------------------------------------------------------------------
(* POST /auth/local/login *)

(* an unverified account is answered like a wrong password *)
login_user_outcome_unverified_generic(email, password) ==
    LET id == get_by_email(email) IN
    IF id = 0 \/ users[id].hashed_password = NoHash
        THEN "Invalid email or password"
    ELSE IF ~verify_and_update(password, users[id].hashed_password).verified
        THEN "Invalid email or password"
    ELSE IF ~users[id].is_active THEN "Account is inactive"
    ELSE IF ~users[id].is_verified THEN "Invalid email or password"
    ELSE "redirect:/dashboard"

(* the verified flag is looked at before the active flag *)
login_user_outcome_verified_first(email, password) ==
    LET id == get_by_email(email) IN
    IF id = 0 \/ users[id].hashed_password = NoHash
        THEN "Invalid email or password"
    ELSE IF ~verify_and_update(password, users[id].hashed_password).verified
        THEN "Invalid email or password"
    ELSE IF ~users[id].is_verified
        THEN "Please verify your email before logging in."
    ELSE IF ~users[id].is_active THEN "Account is inactive"
    ELSE "redirect:/dashboard"

(* a login that tells a provider-only account to use its provider *)
login_user_outcome_provider_hint(email, password) ==
    LET id == get_by_email(email) IN
    IF id = 0 THEN "Invalid email or password"
    ELSE IF users[id].hashed_password = NoHash
        THEN "Please sign in with your identity provider"
    ELSE IF ~verify_and_update(password, users[id].hashed_password).verified
        THEN "Invalid email or password"
    ELSE IF ~users[id].is_active THEN "Account is inactive"
    ELSE IF ~users[id].is_verified
        THEN "Please verify your email before logging in."
    ELSE "redirect:/dashboard"

login_user_outcome(email, password) ==
    LET id == get_by_email(email) IN
    IF id = 0 \/ users[id].hashed_password = NoHash
        THEN "Invalid email or password"
    ELSE IF ~verify_and_update(password, users[id].hashed_password).verified
        THEN "Invalid email or password"
    ELSE IF ~users[id].is_active THEN "Account is inactive"
    ELSE IF ~users[id].is_verified
        THEN "Please verify your email before logging in."
    ELSE "redirect:/dashboard"

(* the hash is rewritten and committed when the helper returns a new one *)
login_user_rehash(email, password) ==
    LET id == get_by_email(email) IN
    IF /\ id # 0
       /\ users[id].hashed_password # NoHash
       /\ verify_and_update(password, users[id].hashed_password).verified
       /\ verify_and_update(password, users[id].hashed_password)
              .updated_password_hash # NoHash
    THEN [users EXCEPT ![id].hashed_password =
            verify_and_update(password, users[id].hashed_password)
              .updated_password_hash]
    ELSE users

Login(email, password) ==
    LET out == login_user_outcome(email, password)
        cookie == create_auth_cookie_response(get_by_email(email))
    IN  /\ users' = login_user_rehash(email, password)
        /\ req' = Request("login", email, password, NoToken)
        /\ resp' = Response(out,
                            IF out = "redirect:/dashboard" THEN cookie
                            ELSE NoToken,
                            login_user_rehash(email, password) # users)
        /\ UNCHANGED <<now, ticks, issued, outbox, jwt_algorithm, inflight, kept>>

----------------------------------------------------------------------------
(* GET /auth/verify *)

(* a verify endpoint that refuses an account already verified *)
verify_email_outcome_reject_verified(token) ==
    IF jwt_decode(token, SECRET_KEY, {jwt_algorithm}, NoneV) # "ok"
        THEN "Invalid verification token"
    ELSE IF token.type # "verification" THEN "Invalid verification token"
    ELSE IF token.sub = <<>> THEN "Invalid verification token"
    ELSE IF ~IsNumeric(token.sub) THEN "Verification failed"
    ELSE IF session_get(int(token.sub)) = 0 THEN "User not found"
    ELSE IF users[int(token.sub)].is_verified THEN "Already verified"
    ELSE "success"

(* a verify endpoint that answers an unknown subject like a bad token *)
verify_email_outcome_missing_invalid(token) ==
    IF jwt_decode(token, SECRET_KEY, {jwt_algorithm}, NoneV) # "ok"
        THEN "Invalid verification token"
    ELSE IF token.type # "verification" THEN "Invalid verification token"
    ELSE IF token.sub = <<>> THEN "Invalid verification token"
    ELSE IF ~IsNumeric(token.sub) THEN "Verification failed"
    ELSE IF session_get(int(token.sub)) = 0 THEN "Invalid verification token"
    ELSE "success"

(* a verify endpoint that names the wrong-kind case *)
verify_email_outcome_type_leak(token) ==
    IF jwt_decode(token, SECRET_KEY, {jwt_algorithm}, NoneV) # "ok"
        THEN "Invalid verification token"
    ELSE IF token.type # "verification" THEN "Invalid token type"
    ELSE IF token.sub = <<>> THEN "Invalid verification token"
    ELSE IF ~IsNumeric(token.sub) THEN "Verification failed"
    ELSE IF session_get(int(token.sub)) = 0 THEN "User not found"
    ELSE "success"

verify_email_outcome(token) ==
    IF jwt_decode(token, SECRET_KEY, {jwt_algorithm}, NoneV) # "ok"
        THEN "Invalid verification token"
    ELSE IF token.type # "verification" THEN "Invalid verification token"
    ELSE IF token.sub = <<>> THEN "Invalid verification token"
    ELSE IF ~IsNumeric(token.sub) THEN "Verification failed"
    ELSE IF session_get(int(token.sub)) = 0 THEN "User not found"
    ELSE "success"

(* the flag is set on the session's object and never committed *)
verify_email_commit_uncommitted(id) == users

(* user.is_verified = True; await session.commit() *)
verify_email_commit(id) == [users EXCEPT ![id].is_verified = TRUE]

VerifyEmail(token) ==
    LET out == verify_email_outcome(token) IN
    /\ users' = IF out = "success" THEN verify_email_commit(int(token.sub))
                ELSE users
    /\ req' = Request("verify", <<>>, NoneV, token)
    /\ resp' = Response(out, NoToken, users' # users)
    /\ UNCHANGED <<now, ticks, issued, outbox, jwt_algorithm, inflight, kept>>

----------------------------------------------------------------------------
(* GET /auth/google/callback *)

auth_google_callback_outcome(fault, email) ==
    IF fault = "exchange" THEN "redirect:/login?error=Authentication+Failed"
    ELSE IF fault = "userinfo"
        THEN "redirect:/login?error=Failed+to+get+user+info"
    ELSE IF email = <<>> THEN "redirect:/login?error=No+email+provided"
    ELSE "redirect:/dashboard"

(* the new account is left with the column default of is_verified *)
google_new_user_unverified(email, name, picture) ==
    User(email, NoHash, TRUE, FALSE, FALSE, name, picture, "google")

google_new_user(email, name, picture) ==
    User(email, NoHash, TRUE, TRUE, FALSE, name, picture, "google")

(* the update branch also marks the account verified *)
google_update_user_verifies(u, name, picture) ==
    [u EXCEPT !.name = name, !.picture = picture, !.is_verified = TRUE]

(* the update branch rebuilds the flags from the column defaults *)
google_update_user_unverifies(u, name, picture) ==
    [u EXCEPT !.name = name, !.picture = picture, !.is_verified = FALSE]

google_update_user(u, name, picture) ==
    [u EXCEPT !.name = name, !.picture = picture]

GoogleCallback(fault, email, name, picture) ==
    LET out == auth_google_callback_outcome(fault, email)
        found == get_by_email(email)
        id == IF found = 0 THEN Len(users) + 1 ELSE found
        cookie == create_auth_cookie_response(id)
    IN  IF out = "redirect:/dashboard"
        THEN /\ IF found = 0
                THEN users' = session_add(google_new_user(email, name, picture))
                ELSE users' = [users EXCEPT ![found] =
                                 google_update_user(users[found], name, picture)]
             /\ req' = CallbackRequest("google", email, <<name, picture>>)
             /\ resp' = Response(out, cookie, users' # users)
             /\ UNCHANGED <<now, ticks, issued, outbox, jwt_algorithm, inflight, kept>>
        ELSE /\ req' = CallbackRequest("google", email, <<name, picture>>)
             /\ resp' = Response(out, NoToken, FALSE)
             /\ UNCHANGED <<users, now, ticks, issued, outbox, jwt_algorithm, inflight, kept>>

----------------------------------------------------------------------------
(* GET /auth/vipps/callback *)


auth_vipps_callback_outcome(fault, email) ==
    IF fault = "exchange" THEN "redirect:/login?error=Vipps+Authentication+Failed"
    ELSE IF fault = "no_access_token"
        THEN "redirect:/login?error=No+access+token+from+Vipps"
    ELSE IF fault = "userinfo"
        THEN "redirect:/login?error=Failed+to+get+user+info+from+Vipps"
    ELSE IF email = <<>> THEN "redirect:/login?error=No+email+provided+by+Vipps"
    ELSE "redirect:/dashboard"

(* userinfo name, else given_name and family_name joined and stripped;   *)
(* the family name is taken as absent, so the result is the given name   *)
vipps_name(name, given_name) == IF name # NoneV THEN name ELSE given_name

(* the new account is left with the column default of is_verified *)
vipps_new_user_unverified(email, name) ==
    User(email, NoHash, TRUE, FALSE, FALSE, IF name # "" THEN name ELSE NoneV,
         NoneV, "vipps")

vipps_new_user(email, name) ==
    User(email, NoHash, TRUE, TRUE, FALSE, IF name # "" THEN name ELSE NoneV,
         NoneV, "vipps")

(* the update branch resets the account to a provider-only account *)
vipps_update_user_clears_hash(u, name) ==
    IF name # "" THEN [u EXCEPT !.name = name, !.hashed_password = NoHash]
    ELSE [u EXCEPT !.hashed_password = NoHash]

vipps_update_user(u, name) == IF name # "" THEN [u EXCEPT !.name = name] ELSE u

VippsCallback(fault, email, userinfo_name, given_name) ==
    LET out == auth_vipps_callback_outcome(fault, email)
        name == vipps_name(userinfo_name, given_name)
        found == get_by_email(email)
        id == IF found = 0 THEN Len(users) + 1 ELSE found
        cookie == create_auth_cookie_response(id)
    IN  IF out = "redirect:/dashboard"
        THEN /\ IF found = 0
                THEN users' = session_add(vipps_new_user(email, name))
                ELSE users' = [users EXCEPT ![found] =
                                 vipps_update_user(users[found], name)]
             /\ req' = CallbackRequest("vipps", email,
                                    <<userinfo_name, given_name>>)
             /\ resp' = Response(out, cookie, users' # users)
             /\ UNCHANGED <<now, ticks, issued, outbox, jwt_algorithm, inflight, kept>>
        ELSE /\ req' = CallbackRequest("vipps", email,
                                    <<userinfo_name, given_name>>)
             /\ resp' = Response(out, NoToken, FALSE)
             /\ UNCHANGED <<users, now, ticks, issued, outbox, jwt_algorithm, inflight, kept>>

----------------------------------------------------------------------------
(* GET /dashboard, authenticated by the auth cookie *)

(* a strategy with server-side sessions: only the token of the last *)
(* response, which logout clears, names a user                      *)
read_token_current_only(token) ==
    IF token = NoToken \/ token # resp.cookie THEN 0
    ELSE IF jwt_decode(token, SECRET_KEY, {jwt_algorithm}, AuthAudience) # "ok"
        THEN 0
    ELSE IF token.sub = <<>> THEN 0
    ELSE IF ~IsNumeric(token.sub) THEN 0
    ELSE session_get(int(token.sub))

(* JWTStrategy.read_token: the id of the cookie's account, 0 for no user *)
read_token(token) ==
    IF token = NoToken THEN 0
    ELSE IF jwt_decode(token, SECRET_KEY, {jwt_algorithm}, AuthAudience) # "ok"
        THEN 0
    ELSE IF token.sub = <<>> THEN 0
    ELSE IF ~IsNumeric(token.sub) THEN 0
    ELSE session_get(int(token.sub))

(* a dashboard that is content with any cookie *)
dashboard_outcome_open(token) ==
    IF token = NoToken THEN "redirect:/login" ELSE "dashboard.html"

dashboard_outcome(token) ==
    IF read_token(token) = 0 THEN "redirect:/login" ELSE "dashboard.html"

(* GET /profile: the same dependency and the same test *)
profile_outcome(token) ==
    IF read_token(token) = 0 THEN "redirect:/login" ELSE "profile.html"

Dashboard(token) ==
    /\ req' = Request("dashboard", <<>>, NoneV, token)
    /\ resp' = Response(dashboard_outcome(token), NoToken, FALSE)
    /\ UNCHANGED <<users, now, ticks, issued, outbox, jwt_algorithm, inflight, kept>>

----------------------------------------------------------------------------
(* POST /auth/request-verify-token and POST /auth/forgot-password.        *)
(* BaseUserManager.request_verify and forgot_password take (user,         *)
(* request); the handlers pass background_tasks as a third argument, so   *)
(* the call raises TypeError and the handler's except branch answers.     *)

request_verify_token_outcome(email) ==
    LET id == get_by_email(email) IN
    IF id # 0 /\ ~users[id].is_verified
        THEN "Failed to send verification email"
    ELSE "If your email is registered, a verification link has been sent."

RequestVerifyToken(email) ==
    /\ req' = Request("request_verify", email, NoneV, NoToken)
    /\ resp' = Response(request_verify_token_outcome(email), NoToken, FALSE)
    /\ UNCHANGED <<users, now, ticks, issued, outbox, jwt_algorithm, inflight, kept>>

forgot_password_outcome(email) ==
    IF get_by_email(email) # 0 THEN "Failed to send password reset email"
    ELSE "If your email is registered, a password reset link has been sent."

ForgotPassword(email) ==
    /\ req' = Request("forgot_password", email, NoneV, NoToken)
    /\ resp' = Response(forgot_password_outcome(email), NoToken, FALSE)
    /\ UNCHANGED <<users, now, ticks, issued, outbox, jwt_algorithm, inflight, kept>>

----------------------------------------------------------------------------
(* POST /auth/reset-password *)

(* get_user_manager builds UserManager on the AsyncSession itself, which *)
(* has no update method                                                  *)
user_db_has_update == FALSE

(* BaseUserManager.reset_password: the exception it ends in, "ok" if none *)
reset_password_raises(token, password) ==
    IF jwt_decode(token, SECRET_KEY, {DefaultAlgorithm}, ResetAudience) # "ok"
        THEN "InvalidResetPasswordToken"
    ELSE IF token.sub = <<>> THEN "InvalidResetPasswordToken"
    ELSE IF ~IsNumeric(token.sub) THEN "InvalidResetPasswordToken"
    ELSE IF session_get(int(token.sub)) = 0 THEN "AttributeError"
    ELSE IF ~users[int(token.sub)].is_active THEN "UserInactive"
    ELSE IF ~user_db_has_update THEN "AttributeError"
    ELSE "ok"

reset_password_outcome(token, password) ==
    IF Len(password) < MinPasswordLen
        THEN "Password must be at least 8 characters long"
    ELSE IF reset_password_raises(token, password) = "ok"
        THEN "reset_password_success.html"
    ELSE "Failed to reset password. The token may be invalid or expired."

ResetPassword(token, password) ==
    LET out == reset_password_outcome(token, password) IN
    /\ req' = Request("reset_password", <<>>, password, token)
    /\ resp' = Response(out, NoToken, out = "reset_password_success.html")
    /\ users' = IF out = "reset_password_success.html"
                THEN [users EXCEPT ![int(token.sub)].hashed_password =
                                      password_hash(password)]
                ELSE users
    /\ UNCHANGED <<now, ticks, issued, outbox, jwt_algorithm, inflight, kept>>

(* response.delete_cookie: the cookies logout expires (Max-Age=0) *)
logout_deleted_cookies == {"auth", "session"}

(* a logout that redirects and leaves the auth cookie in place *)
Logout_keeps_cookie ==
    /\ req' = Request("logout", <<>>, NoneV, NoToken)
    /\ resp' = Response("redirect:/", resp.cookie, FALSE)
    /\ UNCHANGED <<users, now, ticks, issued, outbox, jwt_algorithm, inflight, kept>>

(* GET /logout: a redirect that deletes the cookies; no server state *)
Logout ==
    /\ req' = Request("logout", <<>>, NoneV, NoToken)
    /\ resp' = Response("redirect:/", NoToken, FALSE)
    /\ UNCHANGED <<users, now, ticks, issued, outbox, jwt_algorithm, inflight, kept>>

----------------------------------------------------------------------------
(* Environment *)

NoRequest == Request("none", <<>>, NoneV, NoToken)

(* between two requests nothing is being answered; the client keeps the *)
(* auth cookie it was last given                                        *)
Idle ==
    /\ req' = NoRequest
    /\ resp' = Response(NoneV, resp.cookie, FALSE)

(* the clock *)
Tick(d) ==
    /\ ticks < MaxTicks
    /\ ticks' = ticks + 1
    /\ now' = now + d
    /\ Idle
    /\ UNCHANGED <<users, issued, outbox, jwt_algorithm, inflight, kept>>

(* the store's operator switches an account off (users.is_active) *)
Deactivate(id) ==
    /\ id \in Ids
    /\ users[id].is_active
    /\ users' = [users EXCEPT ![id].is_active = FALSE]
    /\ Idle
    /\ UNCHANGED <<now, ticks, issued, outbox, jwt_algorithm, inflight, kept>>

(* BackgroundTasks of the oldest answered request: its _send_email_task *)
(* calls run one after the other without yielding, each logging, sending *)
(* or dropping its mail                                                  *)
SendEmailTask ==
    /\ outbox # <<>>
    /\ outbox' = Tail(outbox)
    /\ Idle
    /\ UNCHANGED <<users, now, ticks, issued, jwt_algorithm, inflight, kept>>

(* tokens a client can present: the verification tokens the server has  *)
(* mailed, the auth cookie of the last response, and what anyone can     *)
(* write without the signing key                                         *)
Forged ==
    { [fmt |-> "jws", alg |-> jwt_algorithm, key |-> ForgedKey,
       sub |-> Str(i), exp |-> now + 1, type |-> "verification",
       aud |-> NoneV] : i \in Ids }

Presentable == issued \cup {resp.cookie} \cup Forged \cup {Garbage}

----------------------------------------------------------------------------

NoResponse == Response(NoneV, NoToken, FALSE)

(* an empty table; settings as config.py resolves them without overrides *)
Init ==
    /\ users = <<>>
    /\ now = 0
    /\ ticks = 0
    /\ issued = {}
    /\ outbox = <<>>
    /\ jwt_algorithm = DefaultAlgorithm
    /\ inflight = <<>>
    /\ kept = {}
    /\ req = NoRequest
    /\ resp = NoResponse

Next ==
    \/ \E e \in Emails, p \in Passwords, n \in Names : Register(e, p, n)
    \/ \E e \in Emails, p \in LoginPasswords : Login(e, p)
    \/ \E t \in Presentable : VerifyEmail(t)
    \/ \E r \in GoogleRequests, n \in Names, p \in Pictures :
          GoogleCallback(r.fault, r.email, n, p)
    \/ \E r \in VippsRequests, n \in Names, g \in GivenNames :
          VippsCallback(r.fault, r.email, n, g)
    \/ \E t \in Presentable : Dashboard(t)
    \/ \E e \in Emails : RequestVerifyToken(e)
    \/ \E e \in Emails : ForgotPassword(e)
    \/ Logout
    \/ \E d \in Deltas : Tick(d)
    \/ \E i \in Ids : Deactivate(i)
    \/ SendEmailTask

Spec == Init /\ [][Next]_vars

----------------------------------------------------------------------------
(* The token engine on its own: mint(kind, id) and validate(token, kind)  *)
(* as the endpoints compute them, applied to ids and instants drawn from  *)
(* small sets, next to the two endpoints that consume a token.            *)

Kinds == {"session", "verification", "reset"}
MintIds == {1, 2, 42}
ResetLifetime == 3600

(* BaseUserManager.forgot_password: the reset token of fastapi-users *)
forgot_password_token(user_id) ==
    generate_jwt(Str(user_id), ResetAudience, SECRET_KEY, ResetLifetime)

mint(kind, user_id) ==
    IF kind = "session" THEN create_auth_cookie_response(user_id)
    ELSE IF kind = "verification" THEN generate_verification_token(user_id)
    ELSE forgot_password_token(user_id)

(* the claims a consumer of the kind accepts, "InvalidToken" otherwise:   *)
(* verify_email, JWTStrategy.read_token, BaseUserManager.reset_password   *)
validate(token, kind) ==
    IF kind = "verification"
    THEN IF /\ jwt_decode(token, SECRET_KEY, {jwt_algorithm}, NoneV) = "ok"
            /\ token.type = "verification"
            /\ token.sub # <<>>
         THEN "ok" ELSE "InvalidToken"
    ELSE IF kind = "session"
    THEN IF jwt_decode(token, SECRET_KEY, {jwt_algorithm}, AuthAudience) = "ok"
         THEN "ok" ELSE "InvalidToken"
    ELSE IF jwt_decode(token, SECRET_KEY, {DefaultAlgorithm}, ResetAudience) = "ok"
         THEN "ok" ELSE "InvalidToken"

(* mint(kind, id): the token is handed to the client *)
Mint(kind, user_id) ==
    /\ req' = [op |-> "mint", kind |-> kind, user_id |-> user_id]
    /\ resp' = Response("minted", mint(kind, user_id), FALSE)
    /\ UNCHANGED <<users, now, ticks, issued, outbox, jwt_algorithm, inflight, kept>>

(* validate(token, kind) on the token the client holds *)
Validate(kind) ==
    /\ resp.cookie # NoToken
    /\ req' = [op |-> "validate", kind |-> kind, token |-> resp.cookie]
    /\ resp' = Response(validate(resp.cookie, kind), resp.cookie, FALSE)
    /\ UNCHANGED <<users, now, ticks, issued, outbox, jwt_algorithm, inflight, kept>>

(* tokens written by a holder of the signing key with claims the *)
(* application never writes: a subject that is no number, no      *)
(* subject, no type                                               *)
Crafted ==
    { [fmt |-> "jws", alg |-> jwt_algorithm, key |-> SECRET_KEY,
       sub |-> s, exp |-> now + 1, type |-> t, aud |-> NoneV] :
      s \in {<<"a">>, <<>>, <<"1">>}, t \in {"verification", NoneV} }

NextTokens ==
    \/ \E k \in Kinds, i \in MintIds : Mint(k, i)
    \/ \E k \in Kinds : Validate(k)
    \/ Register(Alice, "password123", NoneV)
    \/ \E t \in Presentable \cup Crafted : VerifyEmail(t)
    \/ \E t \in Presentable : Dashboard(t)
    \/ \E d \in Deltas : Tick(d)

(* JWT_ALGORITHM is a setting: any algorithm the environment names *)
InitTokens ==
    /\ users = <<>>
    /\ now = 0
    /\ ticks = 0
    /\ issued = {}
    /\ outbox = <<>>
    /\ jwt_algorithm \in Algorithms
    /\ inflight = <<>>
    /\ kept = {}
    /\ req = NoRequest
    /\ resp = NoResponse

SpecTokens == InitTokens /\ [][NextTokens]_vars

----------------------------------------------------------------------------
(* Concurrent account creation.  Every account-creating handler awaits     *)
(* the lookup by email and, later, the commit of the new row; another      *)
(* request can run between the two.  inflight holds the requests that have *)
(* found no row for their email and have not committed yet.  The requests  *)
(* answered at the lookup are the sequential actions above.                *)

MaxInflight == 2

Pending(op, email, password, name, picture) ==
    [op |-> op, email |-> email, password |-> password, name |-> name,
     picture |-> picture]

RemoveAt(s, k) == SubSeq(s, 1, k - 1) \o SubSeq(s, k + 1, Len(s))

(* a table that accepts a second row with the same email *)
email_unique_unconstrained(email) == TRUE

(* users.email is unique=True: the commit of a second row with the email *)
(* raises IntegrityError                                                 *)
email_unique(email) == \A i \in Ids : users[i].email # email

(* register_user up to and including the existence check *)
RegisterLookup(email, password, name) ==
    IF register_user_outcome(email, password) = "verify.html"
    THEN /\ Len(inflight) < MaxInflight
         /\ inflight' = Append(inflight,
                               Pending("register", email, password, name, NoneV))
         /\ UNCHANGED <<users, now, ticks, issued, outbox, jwt_algorithm, req, resp, kept>>
    ELSE Register(email, password, name)

(* register_user from session.add on; an IntegrityError of the commit is *)
(* caught by the handler's except Exception                              *)
RegisterInsert(k) ==
    LET r == inflight[k]
        id == Len(users) + 1
        token == generate_verification_token(id)
    IN  /\ r.op = "register"
        /\ inflight' = RemoveAt(inflight, k)
        /\ req' = Request("register", r.email, r.password, NoToken)
        /\ IF email_unique(r.email)
           THEN /\ users' = session_add(
                                register_new_user(r.email, r.password, r.name))
                /\ issued' = issued \cup {token}
                /\ outbox' = Append(outbox,
                                    send_verification_email(r.email, token)
                                    \o on_after_register(id, r.email, TRUE, TRUE))
                /\ resp' = Response("verify.html", NoToken, TRUE)
           ELSE /\ resp' = Response("Registration failed. Please try again.",
                                    NoToken, FALSE)
                /\ UNCHANGED <<users, issued, outbox>>
        /\ UNCHANGED <<now, ticks, jwt_algorithm, kept>>

(* auth_google_callback up to and including the lookup *)
GoogleLookup(fault, email, name, picture) ==
    IF /\ auth_google_callback_outcome(fault, email) = "redirect:/dashboard"
       /\ get_by_email(email) = 0
    THEN /\ Len(inflight) < MaxInflight
         /\ inflight' = Append(inflight,
                               Pending("google", email, NoneV, name, picture))
         /\ UNCHANGED <<users, now, ticks, issued, outbox, jwt_algorithm, req, resp, kept>>
    ELSE GoogleCallback(fault, email, name, picture)

(* auth_google_callback from session.add on *)
GoogleInsert(k) ==
    LET r == inflight[k] IN
    /\ r.op = "google"
    /\ inflight' = RemoveAt(inflight, k)
    /\ req' = CallbackRequest("google", r.email, <<r.name, r.picture>>)
    /\ IF email_unique(r.email)
       THEN /\ users' = session_add(google_new_user(r.email, r.name, r.picture))
            /\ resp' = Response("redirect:/dashboard",
                                create_auth_cookie_response(Len(users) + 1), TRUE)
       ELSE /\ resp' = Response("redirect:/login?error=Authentication+Failed",
                                NoToken, FALSE)
            /\ UNCHANGED users
    /\ UNCHANGED <<now, ticks, issued, outbox, jwt_algorithm, kept>>

(* auth_vipps_callback up to and including the lookup *)
VippsLookup(fault, email, userinfo_name, given_name) ==
    IF /\ auth_vipps_callback_outcome(fault, email) = "redirect:/dashboard"
       /\ get_by_email(email) = 0
    THEN /\ Len(inflight) < MaxInflight
         /\ inflight' = Append(inflight,
                               Pending("vipps", email, NoneV,
                                       vipps_name(userinfo_name, given_name),
                                       NoneV))
         /\ UNCHANGED <<users, now, ticks, issued, outbox, jwt_algorithm, req, resp, kept>>
    ELSE VippsCallback(fault, email, userinfo_name, given_name)

(* auth_vipps_callback from session.add on *)
VippsInsert(k) ==
    LET r == inflight[k] IN
    /\ r.op = "vipps"
    /\ inflight' = RemoveAt(inflight, k)
    /\ req' = CallbackRequest("vipps", r.email, <<r.name, r.picture>>)
    /\ IF email_unique(r.email)
       THEN /\ users' = session_add(vipps_new_user(r.email, r.name))
            /\ resp' = Response("redirect:/dashboard",
                                create_auth_cookie_response(Len(users) + 1), TRUE)
       ELSE /\ resp' = Response("redirect:/login?error=Vipps+Authentication+Failed",
                                NoToken, FALSE)
            /\ UNCHANGED users
    /\ UNCHANGED <<now, ticks, issued, outbox, jwt_algorithm, kept>>

NextRace ==
    \/ \E e \in Emails, p \in Passwords, n \in Names : RegisterLookup(e, p, n)
    \/ \E k \in 1..Len(inflight) : RegisterInsert(k)
    \/ \E r \in GoogleRequests, n \in Names, p \in Pictures :
          GoogleLookup(r.fault, r.email, n, p)
    \/ \E k \in 1..Len(inflight) : GoogleInsert(k)
    \/ \E r \in VippsRequests, n \in Names, g \in GivenNames :
          VippsLookup(r.fault, r.email, n, g)
    \/ \E k \in 1..Len(inflight) : VippsInsert(k)

SpecRace == Init /\ [][NextRace]_vars

----------------------------------------------------------------------------
(* Profile fields: registrations and provider callbacks whose assertions *)
(* carry a name or a picture, or none                                    *)

ProfileNames == {NoneV, "Ann", "Bea"}
ProfilePictures == {NoneV, "a.png"}
ProfileGivenNames == {"", "Cy"}

NextProfile ==
    \/ \E e \in {Alice, Bob}, n \in ProfileNames : Register(e, "password123", n)
    \/ \E n \in ProfileNames, p \in ProfilePictures :
          GoogleCallback("none", Alice, n, p)
    \/ \E n \in ProfileNames, g \in ProfileGivenNames :
          VippsCallback("none", Bob, n, g)

SpecProfile == Init /\ [][NextProfile]_vars

----------------------------------------------------------------------------
(* Sessions: the auth cookie is a bearer token, and a copy of it taken   *)
(* while it was the browser's cookie (another tab, a proxy, a script of  *)
(* the client) outlives the browser's own copy                           *)

KeepCookie ==
    /\ resp.cookie # NoToken
    /\ resp.cookie \notin kept
    /\ kept' = kept \cup {resp.cookie}
    /\ UNCHANGED <<users, now, ticks, issued, outbox, jwt_algorithm, inflight,
                   req, resp>>

NextSession ==
    \/ Register(Alice, "password123", NoneV)
    \/ \E t \in issued : VerifyEmail(t)
    \/ Login(Alice, "password123")
    \/ GoogleCallback("none", Bob, NoneV, NoneV)
    \/ KeepCookie
    \/ Logout
    \/ \E t \in kept \cup {resp.cookie} : Dashboard(t)
    \/ \E d \in Deltas : Tick(d)
    \/ \E i \in Ids : Deactivate(i)

SpecSession == Init /\ [][NextSession]_vars

----------------------------------------------------------------------------
(* Password reset: reset tokens as BaseUserManager.forgot_password writes *)
(* them, held by a client and presented with a new password, next to      *)
(* registrations with every kind of form input                            *)

ResetPasswords == {"newpass456", "short"}

NextReset ==
    \/ \E e \in {Alice, NoAt}, p \in Passwords : Register(e, p, NoneV)
    \/ \E i \in {1, 42} : Mint("reset", i)
    \/ KeepCookie
    \/ \E t \in kept \cup issued \cup {Garbage}, p \in ResetPasswords :
          ResetPassword(t, p)
    \/ \E d \in Deltas : Tick(d)
    \/ \E i \in Ids : Deactivate(i)

SpecReset == Init /\ [][NextReset]_vars

----------------------------------------------------------------------------
(* Mail: a registration whose two verification mails meet a fault while   *)
(* they are prepared, and delivery tasks that meet one while they run.    *)
(* A batch of the outbox is the BackgroundTasks of one answered request.  *)

(* where preparing one mail can fail: reading the template, add_task *)
MailFaults == {"none", "render", "enqueue"}
(* where one delivery can fail: the SMTP session, the email_output file *)
DeliveryFaults == {"none", "smtp", "file"}

(* send_verification_email: the template, or the fallback string when *)
(* the template is missing or cannot be read                           *)
verification_html(fault) == IF fault = "render" THEN "fallback" ELSE "template"

(* a delivery that is carried out before send_email returns *)
send_verification_email_inline(fault, email, token) == <<>>

(* send_verification_email -> send_email: an exception, add_task's *)
(* included, is logged and the mail is not queued                  *)
send_verification_email_under(fault, email, token) ==
    IF fault = "enqueue" THEN <<>>
    ELSE <<[to |-> email, subject |-> "Verify Your Email Address",
            token |-> token, html |-> verification_html(fault)]>>

(* a registration that reports the mail's failure to the client *)
register_user_outcome_propagating(email, password, f1, f2) ==
    IF register_user_outcome(email, password) = "verify.html"
       /\ (f1 # "none" \/ f2 # "none")
    THEN "Registration failed. Please try again."
    ELSE register_user_outcome(email, password)

(* register_user: both sends are wrapped in try/except *)
register_user_outcome_under(email, password, f1, f2) ==
    register_user_outcome(email, password)

(* POST /auth/local/register with fault f1 in the direct send and f2 in *)
(* UserManager.on_after_register's                                      *)
RegisterUnder(email, password, f1, f2) ==
    LET id == Len(users) + 1
        token == generate_verification_token(id)
        batch == send_verification_email_under(f1, email, token)
                 \o send_verification_email_under(f2, email, token)
        out == register_user_outcome_under(email, password, f1, f2)
    IN  /\ req' = [op |-> "register", email |-> email, password |-> password,
                   token |-> NoToken, faults |-> <<f1, f2>>]
        /\ resp' = Response(out, NoToken, out = "verify.html")
        /\ IF register_user_outcome(email, password) = "verify.html"
           THEN /\ users' = session_add(register_new_user(email, password,
                                                         NoneV))
                /\ issued' = IF batch = <<>> THEN issued
                             ELSE issued \cup {token}
                /\ outbox' = IF batch = <<>> THEN outbox
                             ELSE Append(outbox, batch)
           ELSE UNCHANGED <<users, issued, outbox>>
        /\ UNCHANGED <<now, ticks, jwt_algorithm, inflight, kept>>

(* _send_email_task for each mail of a batch: an SMTP failure is caught  *)
(* and logged per mail; a failure writing the email_output file is not, *)
(* and ends the batch at its first task                                  *)
delivered(batch, fault) ==
    IF fault = "none" THEN Len(batch) ELSE 0

(* the oldest answered request's BackgroundTasks run, after its response *)
SendEmailTaskUnder(fault) ==
    /\ outbox # <<>>
    /\ outbox' = Tail(outbox)
    /\ req' = [op |-> "send_email_task", fault |-> fault,
               delivered |-> delivered(Head(outbox), fault)]
    /\ resp' = Response(NoneV, resp.cookie, FALSE)
    /\ UNCHANGED <<users, now, ticks, issued, jwt_algorithm, inflight, kept>>

NextMail ==
    \/ \E e \in {Alice, Bob}, p \in Passwords, f1 \in MailFaults,
          f2 \in MailFaults :
          RegisterUnder(e, p, f1, f2)
    \/ \E f \in DeliveryFaults : SendEmailTaskUnder(f)
    \/ \E t \in issued : VerifyEmail(t)
    \/ \E e \in {Alice, Bob} : Login(e, "password123")

SpecMail == Init /\ [][NextMail]_vars

----------------------------------------------------------------------------
(* Settings: Settings.__init__ applied to an environment and a vault   *)
(* drawn from small sets.  req holds the process environment and the   *)
(* vault before the call and, after it, os.environ and the settings    *)
(* pydantic resolved from it.                                          *)

SecretNames ==
    {"GOOGLE_CLIENT_ID", "GOOGLE_CLIENT_SECRET", "VIPPS_CLIENT_ID",
     "VIPPS_CLIENT_SECRET", "SMTP_PASSWORD"}

(* the name Settings.__init__ asks the vault for; a vault's secret names *)
(* are letters, digits and hyphens                                        *)
VaultKey ==
    [GOOGLE_CLIENT_ID |-> "GOOGLE-CLIENT-ID",
     GOOGLE_CLIENT_SECRET |-> "GOOGLE-CLIENT-SECRET",
     VIPPS_CLIENT_ID |-> "VIPPS-CLIENT-ID",
     VIPPS_CLIENT_SECRET |-> "VIPPS-CLIENT-SECRET",
     SMTP_PASSWORD |-> "SMTP-PASSWORD"]
VaultKeys == {VaultKey[n] : n \in SecretNames}

EnvValues == {NoneV, "from-env"}
VaultValues == {NoneV, "from-vault"}

(* KeyVaultClient.get_secret: the secret's value, None when the vault *)
(* has no secret of that name or the request fails                    *)
get_secret(vault, secret_name) ==
    IF secret_name \in DOMAIN vault THEN vault[secret_name] ELSE NoneV

(* the value Settings.__init__ fetches for a setting: the two Google   *)
(* secrets are asked for under the setting's own name first, then with *)
(* hyphens; the others with hyphens only                               *)
secret_from_vault(vault, name) ==
    IF name \in {"GOOGLE_CLIENT_ID", "GOOGLE_CLIENT_SECRET"}
       /\ get_secret(vault, name) # NoneV
    THEN get_secret(vault, name)
    ELSE get_secret(vault, VaultKey[name])

(* os.environ after the pre-load: a value found in the vault is written *)
(* over whatever the environment held                                   *)
preload_environ(use_keyvault, env, vault) ==
    [n \in SecretNames |->
        IF use_keyvault /\ secret_from_vault(vault, n) # NoneV
        THEN secret_from_vault(vault, n)
        ELSE env[n]]

(* BaseSettings.__init__: each field from os.environ, else its default *)
pydantic_settings(environ) == [n \in SecretNames |-> environ[n]]

Settings__init__ ==
    /\ req.op = "environ"
    /\ req' = [op |-> "settings", use_keyvault |-> req.use_keyvault,
               env |-> req.env, vault |-> req.vault,
               environ |-> preload_environ(req.use_keyvault, req.env,
                                           req.vault),
               settings |-> pydantic_settings(
                              preload_environ(req.use_keyvault, req.env,
                                              req.vault))]
    /\ resp' = Response("settings", NoToken, FALSE)
    /\ UNCHANGED <<users, now, ticks, issued, outbox, jwt_algorithm, inflight,
                   kept>>

InitSettings ==
    /\ users = <<>>
    /\ now = 0
    /\ ticks = 0
    /\ issued = {}
    /\ outbox = <<>>
    /\ jwt_algorithm = DefaultAlgorithm
    /\ inflight = <<>>
    /\ kept = {}
    /\ req \in {[op |-> "environ", use_keyvault |-> u, env |-> e, vault |-> v] :
                 u \in BOOLEAN, e \in [SecretNames -> EnvValues],
                 v \in [VaultKeys -> VaultValues]}
    /\ resp = NoResponse

NextSettings == Settings__init__

SpecSettings == InitSettings /\ [][NextSettings]_vars

----------------------------------------------------------------------------
(* Vocabulary of the properties, stated on a token's claims and on the   *)
(* table rather than through the handlers                                *)

WellSigned(t) == t.fmt = "jws" /\ t.key = SECRET_KEY /\ t.alg = jwt_algorithm
Unexpired(t) == t.exp > now

(* t is a correctly signed, unexpired verification token for account i *)
ValidVerificationFor(t, i) ==
    /\ WellSigned(t)
    /\ Unexpired(t)
    /\ t.type = "verification"
    /\ t.aud = NoneV
    /\ i \in Ids
    /\ t.sub = Str(i)

AccountOf(email) == CHOOSE i \in Ids : users[i].email = email
Registered(email) == \E i \in Ids : users[i].email = email
CorrectPassword(email, password) ==
    /\ Registered(email)
    /\ users[AccountOf(email)].hashed_password = password_hash(password)

(* t is what mint(kind, id) gives for some id at some instant *)
MintedAs(t, kind) ==
    \E i \in MintIds : [t EXCEPT !.exp = 0] = [mint(kind, i) EXCEPT !.exp = 0]

Lifetime(kind) ==
    IF kind = "session" THEN SessionLifetime
    ELSE IF kind = "verification" THEN VerificationLifetimeHours * SecondsPerHour
    ELSE ResetLifetime

MsgInvalidCredentials == "Invalid email or password"
MsgInactive == "Account is inactive"
MsgNotVerified == "Please verify your email before logging in."
MsgInvalidToken == "Invalid verification token"
ToDashboard == "redirect:/dashboard"

----------------------------------------------------------------------------
C2_LocalUnverifiedUntilConsumed ==
    [][/\ (req'.op = "register" /\ Len(users') > Len(users))
          => ~users'[Len(users')].is_verified
       /\ \A i \in Ids :
            (users[i].via = "local" /\ ~users[i].is_verified
                /\ users'[i].is_verified)
            => /\ req'.op = "verify"
               /\ ValidVerificationFor(req'.token, i)]_vars

(* a local, still unverified account met by a provider callback for its *)
(* own email                                                            *)
C2_Witness ==
    /\ req.op \in {"google", "vipps"}
    /\ Registered(req.email)
    /\ users[AccountOf(req.email)].via = "local"
    /\ ~users[AccountOf(req.email)].is_verified
    /\ resp.cookie # NoToken

(* C3: an account created by the Google or the Vipps callback, for an    *)
(* email that had no account, is verified, has no password hash and is   *)
(* active right after its creation.                                      *)
C3_ProviderCreated ==
    [][(req'.op \in {"google", "vipps"} /\ Len(users') > Len(users))
       => LET u == users'[Len(users')] IN
          /\ ~(\E i \in Ids : users[i].email = req'.email)
          /\ u.email = req'.email
          /\ u.is_verified
          /\ u.hashed_password = NoHash
          /\ u.is_active]_vars

C3_Witness ==
    /\ req.op = "vipps"
    /\ resp.changed
    /\ Registered(req.email)
    /\ users[AccountOf(req.email)].via = "vipps"
    /\ AccountOf(req.email) = Len(users)

(* C4: a password login with the correct password for an active account  *)
(* that is not verified gets the please-verify page, not the generic     *)
(* invalid-credentials error, and no session cookie.                     *)
C4_LoginNotVerified ==
    (/\ req.op = "login"
     /\ CorrectPassword(req.email, req.password)
     /\ users[AccountOf(req.email)].is_active
     /\ ~users[AccountOf(req.email)].is_verified)
    => /\ resp.out = MsgNotVerified
       /\ resp.out # MsgInvalidCredentials
       /\ resp.cookie = NoToken

C4_Witness ==
    /\ req.op = "login"
    /\ CorrectPassword(req.email, req.password)
    /\ users[AccountOf(req.email)].is_active
    /\ ~users[AccountOf(req.email)].is_verified
    /\ resp.out = MsgNotVerified

(* C5: password login checks the password, then the active flag, then   *)
(* the verified flag: a wrong password gives the generic                *)
(* invalid-credentials outcome whatever the flags; a correct password   *)
(* on an inactive account gives the inactive outcome even when the      *)
(* account is unverified too; the not-verified outcome appears only     *)
(* with a correct password on an active account.                        *)
C5_LoginCheckOrder ==
    req.op = "login" =>
      /\ ~CorrectPassword(req.email, req.password)
         => resp.out = MsgInvalidCredentials
      /\ (/\ CorrectPassword(req.email, req.password)
          /\ ~users[AccountOf(req.email)].is_active)
         => resp.out = MsgInactive
      /\ resp.out = MsgNotVerified
         => /\ CorrectPassword(req.email, req.password)
            /\ users[AccountOf(req.email)].is_active
            /\ ~users[AccountOf(req.email)].is_verified

(* a correct password on an account both inactive and unverified *)
C5_Witness ==
    /\ req.op = "login"
    /\ CorrectPassword(req.email, req.password)
    /\ ~users[AccountOf(req.email)].is_active
    /\ ~users[AccountOf(req.email)].is_verified
    /\ resp.out = MsgInactive

(* C6: a token minted with one kind fails validation as any other kind,  *)
(* for all pairs among session, verification and reset; a session or     *)
(* reset token presented at the verify endpoint is refused and verifies  *)
(* no account, and a verification token presented as the auth cookie     *)
(* authenticates no session.                                             *)
C6_CrossKindRejected ==
    /\ req.op = "mint"
       => \A k \in Kinds \ {req.kind} :
            validate(resp.cookie, k) = "InvalidToken"
    /\ req.op = "validate"
       => \A k \in Kinds \ {req.kind} :
            MintedAs(req.token, k) => resp.out = "InvalidToken"
    /\ (/\ req.op = "verify"
        /\ MintedAs(req.token, "session") \/ MintedAs(req.token, "reset"))
       => /\ resp.out = MsgInvalidToken
          /\ ~resp.changed
    /\ (req.op = "dashboard" /\ MintedAs(req.token, "verification"))
       => resp.out = "redirect:/login"

(* a session token for an existing, unverified account at the verify *)
(* endpoint                                                          *)
C6_Witness ==
    /\ req.op = "verify"
    /\ MintedAs(req.token, "session")
    /\ Unexpired(req.token)
    /\ \E i \in Ids : req.token.sub = Str(i) /\ ~users[i].is_verified
    /\ resp.out = MsgInvalidToken

(* C7: a token's exp is its mint time plus the lifetime of its kind      *)
(* (session 3600 seconds, verification 24 hours), and once the clock is  *)
(* past exp the token fails validation as every kind: a session token    *)
(* with a one-hour lifetime fails at +3601 seconds, an expired           *)
(* verification token changes no account, an expired cookie opens no     *)
(* session.                                                              *)
C7_ExpiredRejected ==
    /\ req.op = "mint" => resp.cookie.exp = now + Lifetime(req.kind)
    /\ Lifetime("session") = 3600
    /\ Lifetime("verification") = 24 * 3600
    /\ (req.op = "validate" /\ now > req.token.exp)
       => resp.out = "InvalidToken"
    /\ (req.op = "verify" /\ now > req.token.exp)
       => /\ resp.out = MsgInvalidToken
          /\ ~resp.changed
    /\ (req.op = "dashboard" /\ now > req.token.exp)
       => resp.out = "redirect:/login"

(* the session token of subject "42", minted at 0, validated at 3601 *)
C7_Witness ==
    /\ jwt_algorithm = DefaultAlgorithm
    /\ req.op = "validate"
    /\ req.kind = "session"
    /\ MintedAs(req.token, "session")
    /\ req.token.sub = Str(42)
    /\ req.token.exp = SessionLifetime
    /\ now = SessionLifetime + 1
    /\ resp.out = "InvalidToken"

(* C8: round trip: right after mint(kind, id), validate of the token as  *)
(* the same kind succeeds and the subject read back is str(id), for      *)
(* every kind and id; the kind discriminator survives the round trip.    *)
C8_RoundTrip ==
    req.op = "mint" =>
      /\ validate(resp.cookie, req.kind) = "ok"
      /\ resp.cookie.sub = Str(req.user_id)
      /\ MintedAs(resp.cookie, req.kind)

HasAt(email) == \E k \in 1..Len(email) : email[k] = "@"

(* C10: registering a new email with a password of 8 or more characters  *)
(* creates an unverified account and mints a verification token for its  *)
(* id; consuming that token at the verify endpoint makes the account     *)
(* verified; a login with the registered password then succeeds and sets *)
(* the auth cookie for that account, while the same login before the     *)
(* token is consumed sets no cookie.                                     *)
C10_RegisterVerifyLogin ==
    [][/\ (/\ req'.op = "register"
           /\ HasAt(req'.email)
           /\ Len(req'.password) >= MinPasswordLen
           /\ ~Registered(req'.email))
          => /\ Len(users') = Len(users) + 1
             /\ users'[Len(users')].email = req'.email
             /\ users'[Len(users')].hashed_password
                    = password_hash(req'.password)
             /\ ~users'[Len(users')].is_verified
             /\ \E t \in issued' :
                   /\ WellSigned(t) /\ Unexpired(t)
                   /\ t.type = "verification"
                   /\ t.sub = Str(Len(users'))
       /\ req'.op = "verify"
          => \A i \in Ids :
               (users[i].via = "local" /\ ValidVerificationFor(req'.token, i))
               => users'[i].is_verified
       /\ (/\ req'.op = "login"
           /\ CorrectPassword(req'.email, req'.password)
           /\ users[AccountOf(req'.email)].via = "local"
           /\ users[AccountOf(req'.email)].is_active)
          => IF users[AccountOf(req'.email)].is_verified
             THEN /\ resp'.out = ToDashboard
                  /\ resp'.cookie # NoToken
                  /\ resp'.cookie.sub = Str(AccountOf(req'.email))
                  /\ resp'.cookie.aud = AuthAudience
                  /\ WellSigned(resp'.cookie)
                  /\ Unexpired(resp'.cookie)
             ELSE /\ resp'.out # ToDashboard
                  /\ resp'.cookie = NoToken]_vars

(* a login that succeeds for a registered account whose mailed token *)
(* has been consumed                                                 *)
C10_Witness ==
    /\ req.op = "login"
    /\ resp.out = ToDashboard
    /\ resp.cookie # NoToken
    /\ users[AccountOf(req.email)].via = "local"
    /\ users[AccountOf(req.email)].is_verified
    /\ \E t \in issued : t.sub = Str(AccountOf(req.email))

EmailCount(table, email) ==
    Cardinality({i \in 1..Len(table) : table[i].email = email})

(* C11: under every interleaving of concurrent account-creating requests *)
(* for one email (registrations, provider callbacks, or a mix), no two   *)
(* accounts ever share an email, and when a request that found no        *)
(* account at its lookup completes, exactly one account has its email.   *)
C11_OneAccountPerEmail ==
    [][/\ \A i, j \in 1..Len(users') :
            users'[i].email = users'[j].email => i = j
       /\ Len(inflight') < Len(inflight)
          => EmailCount(users', req'.email) = 1]_vars

(* the second of two racing registrations for bob, after the first won *)
C11_Witness ==
    /\ req.op = "register"
    /\ req.email = Bob
    /\ ~resp.changed
    /\ ~(resp.out = "Email already registered")
    /\ EmailCount(users, Bob) = 1
    /\ users[AccountOf(Bob)].via = "local"

(* C12: a registration with a well-formed email and password that        *)
(* creates no account, because the email is taken by the time it is      *)
(* checked or committed, is answered with the email-already-registered   *)
(* outcome, also when it lost a race after passing the existence check.  *)
C12_RaceLoserDuplicate ==
    (/\ req.op = "register"
     /\ HasAt(req.email)
     /\ Len(req.password) >= MinPasswordLen
     /\ ~resp.changed)
    => resp.out = "Email already registered"

(* C13: verified is terminal: no step of any operation (registration,  *)
(* login, provider callback, verification, verification request, reset *)
(* request, logout) turns an account's is_verified from true to false. *)
C13_VerifiedTerminal ==
    [][\A i \in Ids : users[i].is_verified => users'[i].is_verified]_vars

(* a verified local account met by a Google callback for its email *)
C13_Witness ==
    /\ req.op = "google"
    /\ resp.out = ToDashboard
    /\ Registered(req.email)
    /\ users[AccountOf(req.email)].via = "local"
    /\ users[AccountOf(req.email)].is_verified

(* t is a correctly signed, unexpired verification token whose subject *)
(* is a number that is the id of no account                            *)
ValidVerificationForNobody(t) ==
    /\ WellSigned(t)
    /\ Unexpired(t)
    /\ t.type = "verification"
    /\ t.aud = NoneV
    /\ t.sub # <<>>
    /\ IsNumeric(t.sub)
    /\ int(t.sub) \notin Ids

C15_CallbackKeepsFlagsAndHash ==
    [][req'.op \in {"google", "vipps"} =>
       \A i \in Ids :
         /\ users'[i].is_verified = users[i].is_verified
         /\ users'[i].hashed_password = users[i].hashed_password
         /\ users'[i].is_active = users[i].is_active
         /\ users'[i].is_superuser = users[i].is_superuser]_vars

(* a Vipps callback for a local account that has a password hash and *)
(* has been deactivated                                              *)
C15_Witness ==
    /\ req.op = "vipps"
    /\ resp.out = ToDashboard
    /\ Registered(req.email)
    /\ users[AccountOf(req.email)].via = "local"
    /\ users[AccountOf(req.email)].hashed_password # NoHash
    /\ ~users[AccountOf(req.email)].is_active

(* C16: a provider callback for an existing account changes the stored *)
(* name only when the assertion carries a name and the stored picture  *)
(* only when it carries a picture: without a name (or picture) the     *)
(* stored one is kept, on the Google and on the Vipps path.            *)
C16_ProfileKeptWhenAbsent ==
    [][\A i \in Ids :
         /\ \A p \in ProfilePictures :
              GoogleCallback("none", users[i].email, NoneV, p)
              => users'[i].name = users[i].name
         /\ \A n \in ProfileNames :
              GoogleCallback("none", users[i].email, n, NoneV)
              => users'[i].picture = users[i].picture
         /\ VippsCallback("none", users[i].email, NoneV, "")
              => /\ users'[i].name = users[i].name
                 /\ users'[i].picture = users[i].picture]_vars

(* C17: in every reachable state an account without a password hash    *)
(* was created by an identity provider and is verified; such an        *)
(* account is verified from its creation on.                           *)
C17_NoHashImpliesProvider ==
    \A i \in Ids :
      users[i].hashed_password = NoHash
      => /\ users[i].via \in {"google", "vipps"}
         /\ users[i].is_verified

(* a password login tried on an account created by a provider *)
C17_Witness ==
    /\ req.op = "login"
    /\ Registered(req.email)
    /\ users[AccountOf(req.email)].hashed_password = NoHash
    /\ users[AccountOf(req.email)].via = "google"
    /\ resp.out = MsgInvalidCredentials

(* C18: a correctly signed, unexpired verification token whose subject *)
(* is not a number is answered with the invalid-token outcome, like any *)
(* other invalid token, and changes no account.                         *)
C18_NonNumericSubjectInvalid ==
    (/\ req.op = "verify"
     /\ WellSigned(req.token)
     /\ Unexpired(req.token)
     /\ req.token.type = "verification"
     /\ req.token.aud = NoneV
     /\ req.token.sub # <<>>
     /\ ~IsNumeric(req.token.sub))
    => /\ resp.out = MsgInvalidToken
       /\ ~resp.changed

(* the ways a token fails validation at the verify endpoint *)
Malformed(t) == t.fmt # "jws"
BadSignature(t) == t.fmt = "jws" /\ t.key # SECRET_KEY
Expired(t) == t.fmt = "jws" /\ now > t.exp
WrongKind(t) == t.fmt = "jws" /\ t.type # "verification"
MissingSubject(t) == t.fmt = "jws" /\ t.sub = <<>>

(* C19: at the verify endpoint a malformed token, a bad signature, an   *)
(* elapsed expiry, a wrong kind and a missing subject are all answered  *)
(* with the one invalid-token outcome and change nothing, so the answer *)
(* does not tell which of them occurred.                                *)
C19_UniformInvalidToken ==
    (/\ req.op = "verify"
     /\ \/ Malformed(req.token)
        \/ BadSignature(req.token)
        \/ Expired(req.token)
        \/ WrongKind(req.token)
        \/ MissingSubject(req.token))
    => /\ resp.out = MsgInvalidToken
       /\ ~resp.changed

(* a token that is valid in all but its missing subject *)
C19_Witness ==
    /\ req.op = "verify"
    /\ WellSigned(req.token)
    /\ Unexpired(req.token)
    /\ ~WrongKind(req.token)
    /\ MissingSubject(req.token)
    /\ resp.out = MsgInvalidToken

MsgResetRequested ==
    "If your email is registered, a password reset link has been sent."

MsgVerifyRequested ==
    "If your email is registered, a verification link has been sent."

ValidSession(t) ==
    /\ WellSigned(t)
    /\ Unexpired(t)
    /\ t.aud = AuthAudience
    /\ t.sub # <<>>
    /\ IsNumeric(t.sub)
    /\ int(t.sub) \in Ids

(* C25: every successful authentication (password login, Google        *)
(* callback, Vipps callback) sets the cookie auth (HttpOnly,           *)
(* SameSite=Lax, max-age 3600) carrying a session token whose subject  *)
(* is the string id of the authenticated account and whose lifetime is *)
(* 3600 seconds; a failed authentication sets no cookie.               *)
C25_AuthCookie ==
    req.op \in {"login", "google", "vipps"} =>
      IF resp.out = ToDashboard
      THEN /\ Registered(req.email)
           /\ resp.cookie.fmt = "jws"
           /\ resp.cookie.key = SECRET_KEY
           /\ resp.cookie.aud = AuthAudience
           /\ resp.cookie.type = NoneV
           /\ resp.cookie.sub = Str(AccountOf(req.email))
           /\ resp.cookie.exp = now + 3600
           /\ auth_cookie_attributes.key = "auth"
           /\ auth_cookie_attributes.httponly
           /\ auth_cookie_attributes.samesite = "lax"
           /\ auth_cookie_attributes.max_age = 3600
      ELSE resp.cookie = NoToken

(* a Vipps callback that authenticates the second account of the table *)
C25_Witness ==
    /\ req.op = "vipps"
    /\ resp.out = ToDashboard
    /\ AccountOf(req.email) = 2
    /\ resp.cookie.sub = Str(2)

(* C27: logout, from any state, redirects to / and clears the auth *)
(* cookie, and the session cookie with it.                         *)
C27_LogoutClears ==
    req.op = "logout" =>
      /\ resp.out = "redirect:/"
      /\ resp.cookie = NoToken
      /\ logout_deleted_cookies = {"auth", "session"}

(* a logout while an account exists that can log in *)
C27_Witness ==
    /\ req.op = "logout"
    /\ resp.cookie = NoToken
    /\ \E i \in Ids : users[i].is_verified /\ users[i].is_active

(* C28: a request to /dashboard, and likewise to /profile, without a   *)
(* valid session credential is redirected to /login and never gets the *)
(* protected page.                                                     *)
C28_ProtectedPages ==
    /\ (req.op = "dashboard" /\ ~ValidSession(req.token))
       => resp.out = "redirect:/login"
    /\ \A t \in Presentable :
         ~ValidSession(t) => /\ dashboard_outcome(t) = "redirect:/login"
                             /\ profile_outcome(t) = "redirect:/login"

(* an expired session cookie at the dashboard *)
C28_Witness ==
    /\ req.op = "dashboard"
    /\ req.token.aud = AuthAudience
    /\ req.token.key = SECRET_KEY
    /\ ~Unexpired(req.token)
    /\ resp.out = "redirect:/login"

(* C26: tokens are never revoked individually: a session token issued *)
(* before a logout still names its account after the logout, until its *)
(* expiry instant, and logout changes no server state.                 *)
C26_NoRevocation ==
    [][/\ \A t \in kept' :
            /\ (read_token(t) # 0)' <=> Unexpired(t)'
            /\ (read_token(t) # 0)' => (read_token(t) = int(t.sub))'
       /\ req'.op = "logout" =>
            /\ UNCHANGED <<users, issued, outbox, now, jwt_algorithm>>
            /\ \A t \in kept : read_token(t)' = read_token(t)
       /\ \A t \in kept :
            (req'.op = "dashboard" /\ req'.token = t /\ Unexpired(t)')
               => resp'.out = "dashboard.html"]_vars

(* just after a logout, a token issued before it still names its account *)
C26_Witness ==
    /\ req.op = "logout"
    /\ resp.cookie = NoToken
    /\ \E t \in kept : read_token(t) # 0 /\ Unexpired(t)

(* C22: a validation error comes before any state change: a         *)
(* registration whose email has no @ or whose password is shorter    *)
(* than 8 characters creates no account, mints no token and enqueues *)
(* no mail; a password reset with a password shorter than 8          *)
(* characters leaves every password hash as it was.                  *)
C22_ValidationBeforeChange ==
    [][/\ (req'.op = "register"
            /\ (~HasAt(req'.email) \/ Len(req'.password) < 8))
          => /\ UNCHANGED <<users, issued, outbox>>
             /\ resp'.out \in {"Invalid email address",
                               "Password must be at least 8 characters long"}
             /\ resp'.cookie = NoToken
       /\ (req'.op = "reset_password" /\ Len(req'.password) < 8)
          => /\ UNCHANGED <<users, issued, outbox>>
             /\ resp'.out = "Password must be at least 8 characters long"
      ]_vars

(* a registration with a free, well-formed email and a short password *)
C22_Witness ==
    /\ req.op = "register"
    /\ HasAt(req.email)
    /\ ~Registered(req.email)
    /\ Len(req.password) < 8
    /\ resp.out = "Password must be at least 8 characters long"

(* t is a reset token as BaseUserManager.reset_password accepts it, for *)
(* an existing, active account                                          *)
ValidReset(t) ==
    /\ WellSigned(t)
    /\ Unexpired(t)
    /\ t.aud = ResetAudience
    /\ t.sub # <<>>
    /\ IsNumeric(t.sub)
    /\ int(t.sub) \in Ids
    /\ users[int(t.sub)].is_active

C23_MailFailureAbsorbed ==
    [][/\ (req'.op = "register" /\ HasAt(req'.email)
            /\ Len(req'.password) >= 8 /\ ~Registered(req'.email))
          => /\ resp'.out = "verify.html"
             /\ resp'.cookie = NoToken
             /\ users' = Append(users, register_new_user(req'.email,
                                                         req'.password, NoneV))
       /\ req'.op = "send_email_task"
          => /\ UNCHANGED <<users, issued>>
             /\ resp'.cookie = resp.cookie
      ]_vars

(* a registration whose first mail could not be queued and whose second *)
(* could not be rendered                                                *)
C23_Witness ==
    /\ req.op = "register"
    /\ req.faults = <<"enqueue", "render">>
    /\ resp.out = "verify.html"
    /\ Registered(req.email)
    /\ ~users[AccountOf(req.email)].is_verified

(* the mails a registration has queued when its response is produced *)
QueuedBy(r) == Len(SelectSeq(r.faults, LAMBDA f : f # "enqueue"))

(* C24: mail delivery is deferred: when the response of a registration *)
(* is produced its mails are still waiting as tasks, and tasks that    *)
(* never complete do not keep a registration from being answered.      *)
C24_DeliveryDeferred ==
    /\ (req.op = "register" /\ resp.out = "verify.html" /\ QueuedBy(req) > 0)
       => /\ outbox # <<>>
          /\ Len(outbox[Len(outbox)]) = QueuedBy(req)
          /\ \A k \in 1..QueuedBy(req) :
               /\ outbox[Len(outbox)][k].to = req.email
               /\ outbox[Len(outbox)][k].token.sub = Str(Len(users))
    /\ outbox # <<>>
       => ENABLED RegisterUnder(Bob, "password123", "none", "none")

(* a registration answered while the tasks of an earlier one wait *)
C24_Witness ==
    /\ req.op = "register"
    /\ resp.out = "verify.html"
    /\ Len(outbox) >= 2
    /\ outbox[1][1].to # req.email

(* C30: identity resolution is idempotent: the second of two        *)
(* successive callbacks with the same assertion resolves to the same *)
(* account id as the first, leaves one account under the email and   *)
(* leaves that account, and the table, as the first callback left it. *)
C30_CallbackIdempotent ==
    [][(/\ req.op \in {"google", "vipps"}
        /\ resp.out = ToDashboard
        /\ req'.op = req.op
        /\ req'.email = req.email
        /\ req'.assertion = req.assertion)
       => /\ resp'.out = ToDashboard
          /\ resp'.cookie.sub = resp.cookie.sub
          /\ ~resp'.changed
          /\ users' = users
          /\ EmailCount(users', req.email) = 1]_vars

(* a Google callback that found the account as its predecessor with the *)
(* same name and picture left it                                        *)
C30_Witness ==
    /\ req.op = "google"
    /\ resp.out = ToDashboard
    /\ ~resp.changed
    /\ req.assertion = <<"Ann", "a.png">>
    /\ users[AccountOf(req.email)].name = "Ann"
    /\ users[AccountOf(req.email)].picture = "a.png"
    /\ EmailCount(users, req.email) = 1

(* C31: for an existing unverified account, a verification-token    *)
(* request enqueues a mail to the account's address carrying a token *)
(* that the verify endpoint accepts for that account.                *)
C31_VerifyRequestMails ==
    [][(/\ req'.op = "request_verify"
        /\ Registered(req'.email)
        /\ ~users[AccountOf(req'.email)].is_verified)
       => /\ Len(outbox') = Len(outbox) + 1
          /\ \E k \in 1..Len(outbox'[Len(outbox')]) :
               /\ outbox'[Len(outbox')][k].to = req'.email
               /\ ValidVerificationFor(outbox'[Len(outbox')][k].token,
                                       AccountOf(req'.email))]_vars

(* C32: for an existing account, a password-reset request mints a reset *)
(* token for that account and enqueues a reset mail to the account's    *)
(* address carrying it.                                                 *)
C32_ResetRequestMails ==
    [][(req'.op = "forgot_password" /\ Registered(req'.email))
       => /\ Len(outbox') = Len(outbox) + 1
          /\ \E k \in 1..Len(outbox'[Len(outbox')]) :
               /\ outbox'[Len(outbox')][k].to = req'.email
               /\ outbox'[Len(outbox')][k].token =
                     forgot_password_token(AccountOf(req'.email))]_vars

(* C33: a session credential is issued only for an account that is *)
(* active and verified at the moment of issue, on every            *)
(* authentication path.                                            *)
C33_CookieOnlyForActiveVerified ==
    (req.op \in {"login", "google", "vipps"} /\ resp.cookie # NoToken)
    => /\ Registered(req.email)
       /\ users[AccountOf(req.email)].is_active
       /\ users[AccountOf(req.email)].is_verified

(* C34: a successful local registration mints one verification token *)
(* and enqueues exactly one verification mail for the new account; a  *)
(* registration that fails enqueues none.                             *)
C34_OneMailPerRegistration ==
    [][req'.op = "register" =>
         IF resp'.out = "verify.html"
         THEN /\ Len(outbox') = Len(outbox) + 1
              /\ Len(outbox'[Len(outbox')]) = 1
              /\ Cardinality(issued' \ issued) <= 1
         ELSE outbox' = outbox /\ issued' = issued]_vars

(* C35: every verification mail enqueued by registration is addressed *)
(* to the email of the account just created and carries a              *)
(* verification token whose subject is that account's id; no mail goes *)
(* to an address other than the one of its token's subject.            *)
C35_MailMatchesSubject ==
    /\ \A b \in 1..Len(outbox) : \A k \in 1..Len(outbox[b]) :
         LET m == outbox[b][k] IN
         /\ m.token.type = "verification"
         /\ m.token.key = SECRET_KEY
         /\ IsNumeric(m.token.sub)
         /\ int(m.token.sub) \in Ids
         /\ users[int(m.token.sub)].email = m.to
    /\ (req.op = "register" /\ resp.out = "verify.html")
       => /\ outbox # <<>>
          /\ \A k \in 1..Len(outbox[Len(outbox)]) :
               /\ outbox[Len(outbox)][k].to = req.email
               /\ outbox[Len(outbox)][k].to = users[Len(users)].email
               /\ outbox[Len(outbox)][k].token.sub = Str(Len(users))

(* the registration of a second account, its mails waiting behind the *)
(* first account's                                                    *)
C35_Witness ==
    /\ req.op = "register"
    /\ resp.out = "verify.html"
    /\ Len(users) = 2
    /\ Len(outbox) = 2
    /\ outbox[1][1].to # outbox[2][1].to
    /\ outbox[2][1].token.sub = Str(2)

C37_GenericInvalidCredentials ==
    req.op = "login" =>
      /\ ~Registered(req.email)
         => resp.out = MsgInvalidCredentials /\ resp.cookie = NoToken
      /\ (Registered(req.email)
          /\ users[AccountOf(req.email)].hashed_password = NoHash)
         => resp.out = MsgInvalidCredentials /\ resp.cookie = NoToken
      /\ (Registered(req.email)
          /\ users[AccountOf(req.email)].hashed_password # NoHash
          /\ ~CorrectPassword(req.email, req.password))
         => resp.out = MsgInvalidCredentials /\ resp.cookie = NoToken

(* a login to an account that a provider created, which has no hash *)
C37_Witness ==
    /\ req.op = "login"
    /\ Registered(req.email)
    /\ users[AccountOf(req.email)].hashed_password = NoHash
    /\ users[AccountOf(req.email)].via # "local"
    /\ resp.out = MsgInvalidCredentials

(* C38: for every configured signing algorithm, the session token that *)
(* create_auth_cookie_response places in the auth cookie is accepted by *)
(* the session strategy that reads the cookie, which authenticates the  *)
(* account it was issued for.                                           *)
C38_CookieAcceptedByStrategy ==
    (req.op = "mint" /\ req.kind = "session" /\ req.user_id \in Ids)
    => /\ resp.cookie.alg = jwt_algorithm
       /\ read_token(resp.cookie) = req.user_id

(* C39: settings resolution uses the environment first and the vault *)
(* only as a fallback: a secret present in both resolves to the       *)
(* environment's value, and the vault's value is used only when the   *)
(* environment provides none.                                         *)
C39_EnvironmentFirst ==
    req.op = "settings" =>
      \A n \in SecretNames :
        IF req.env[n] # NoneV
        THEN req.settings[n] = req.env[n]
        ELSE req.settings[n] =
               IF req.use_keyvault THEN req.vault[VaultKey[n]] ELSE NoneV

====
